---- MODULE Spec2Model ----
(***************************************************************************)
(* Recurrent spiking neurons of snntorch: RLeaky (rleaky.py) and RSynaptic  *)
(* (rsynaptic.py).  One forward call is one action; the class-level         *)
(* detach_hidden / reset_hidden are one action each.                        *)
(*                                                                          *)
(* Numbers are exact dyadic rationals <<n, e>> = n / 2^e (every value the   *)
(* model produces is exactly representable in float32, so the arithmetic    *)
(* below is the arithmetic of the tensor engine on these values).           *)
(* A tensor is one batch row: a sequence of numbers, one per neuron.        *)
(***************************************************************************)
EXTENDS Integers, Sequences, FiniteSets, TLC

VARIABLES instances, last, pre, calls, track, caller

\* instances: the registry cls.instances, one record per neuron instance
\* last:      the call made last, its arguments as used and how it ended
\* pre:       the registry as it was when that call began
\* calls:     the number of forward calls made
\* track:     per hidden-state instance, the spike of its latest completed
\*            forward call and whether reset_hidden ran on it since
\* caller:    the state a caller threads through explicit-state calls, and
\*            the steps it has made

vars == <<instances, last, pre, calls, track, caller>>

\* Bound on the number of forward calls of one run.
MaxCalls == 2

----------------------------------------------------------------------------
(* Exact arithmetic on dyadic rationals.                                    *)

RECURSIVE Pow2(_)
Pow2(k) == IF k = 0 THEN 1 ELSE 2 * Pow2(k - 1)

RECURSIVE Norm(_, _)
Norm(n, e) == IF e > 0 /\ n % 2 = 0 THEN Norm(n \div 2, e - 1) ELSE <<n, e>>

Dy(n, e) == Norm(n, e)
Num(n) == <<n, 0>>

MaxE(a, b) == IF a[2] >= b[2] THEN a[2] ELSE b[2]
Scaled(a, m) == a[1] * Pow2(m - a[2])

DAdd(a, b) == LET m == MaxE(a, b) IN Norm(Scaled(a, m) + Scaled(b, m), m)
DSub(a, b) == LET m == MaxE(a, b) IN Norm(Scaled(a, m) - Scaled(b, m), m)
DMul(a, b) == Norm(a[1] * b[1], a[2] + b[2])
DGt(a, b) == LET m == MaxE(a, b) IN Scaled(a, m) > Scaled(b, m)

\* torch.Tensor.clamp(0, 1) on a scalar parameter
clamp01(a) == IF DGt(Num(0), a) THEN Num(0) ELSE IF DGt(a, Num(1)) THEN Num(1) ELSE a

(* Elementwise tensor arithmetic; a scalar parameter broadcasts.            *)
TAdd(s, t) == [j \in DOMAIN s |-> DAdd(s[j], t[j])]
TSub(s, t) == [j \in DOMAIN s |-> DSub(s[j], t[j])]
TMul(s, t) == [j \in DOMAIN s |-> DMul(s[j], t[j])]
TScale(c, t) == [j \in DOMAIN t |-> DMul(c, t[j])]
TZeros(t) == [j \in DOMAIN t |-> Num(0)]

----------------------------------------------------------------------------
(* State slots.  A slot is a call argument or a stored attribute:           *)
(*   "False"  the default argument value False                              *)
(*   "marker" a _SpikeTensor carrying init_flag (uninitialized state)       *)
(*   "tensor" a real tensor with value v; hist says whether it is linked    *)
(*            to gradient history                                           *)
(*   "absent" the attribute was never assigned on the instance              *)

DefaultFalse == [tag |-> "False", v |-> <<>>, hist |-> FALSE]
SpikeTensor == [tag |-> "marker", v |-> <<>>, hist |-> FALSE]
Absent == [tag |-> "absent", v |-> <<>>, hist |-> FALSE]
Tensor(v, h) == [tag |-> "tensor", v |-> v, hist |-> h]

hasInitFlag(s) == s.tag = "marker"
isFalse(s) == s.tag = "False"

----------------------------------------------------------------------------
(* Helpers of the base neuron class (lif.py), which the two classes call.   *)

\* mem_reset: 1 where the membrane exceeds the threshold, else 0
mem_reset(threshold, mem) ==
    [j \in DOMAIN mem |-> IF DGt(mem[j], threshold) THEN Num(1) ELSE Num(0)]

\* fire: per-element threshold compare
fire(threshold, mem) ==
    [j \in DOMAIN mem |-> IF DGt(mem[j], threshold) THEN Num(1) ELSE Num(0)]

\* fire_inhibition: only the maximum-potential neuron(s) of the row may spike
fire_inhibition(threshold, mem) ==
    [j \in DOMAIN mem |->
        IF DGt(mem[j], threshold) /\ \A k \in DOMAIN mem : ~DGt(mem[k], mem[j])
        THEN Num(1) ELSE Num(0)]

\* _SpikeTorchConv on one slot: a marker becomes zeros shaped like the input,
\* anything else passes through unchanged
SpikeTorchConv(slot, input_) ==
    IF hasInitFlag(slot) THEN Tensor(TZeros(input_), FALSE) ELSE slot

\* init_rleaky / init_rsynaptic: every state slot starts as the marker
init_rleaky == [spk |-> SpikeTensor, mem |-> SpikeTensor]
init_rsynaptic == [spk |-> SpikeTensor, syn |-> SpikeTensor, mem |-> SpikeTensor]

----------------------------------------------------------------------------
(* RLeaky (rleaky.py)                                                       *)

\* Variant: the recurrent term V*spk is left out.
RLeaky_base_state_function_no_recurrence(self, input_, spk, mem) ==
    TAdd(TScale(clamp01(self.beta), mem), input_)

RLeaky_base_state_function(self, input_, spk, mem) ==
    TAdd(TAdd(TScale(clamp01(self.beta), mem), input_), TScale(self.V, spk))

\* The result of a state function: ok = FALSE when evaluating it raises.
Raised == [ok |-> FALSE, syn |-> <<>>, mem |-> <<>>]
Value1(mem) == [ok |-> TRUE, syn |-> <<>>, mem |-> mem]
Value2(syn, mem) == [ok |-> TRUE, syn |-> syn, mem |-> mem]

\* Variant: the Subtract branch takes the threshold off on every step.
RLeaky_build_state_function_ungated(self, input_, spk, mem) ==
    CASE self.reset_mechanism_val = 0 ->
            Value1(TSub(RLeaky_base_state_function(self, input_, spk, mem),
                        TScale(self.threshold, [j \in DOMAIN input_ |-> Num(1)])))
      [] self.reset_mechanism_val = 1 -> Raised
      [] self.reset_mechanism_val = 2 ->
            Value1(RLeaky_base_state_function(self, input_, spk, mem))

RLeaky_build_state_function(self, input_, spk, mem) ==
    CASE self.reset_mechanism_val = 0 ->
            Value1(TSub(RLeaky_base_state_function(self, input_, spk, mem),
                        TScale(self.threshold, self.reset.v)))
      [] self.reset_mechanism_val = 1 ->
            \* base_state_function(input_, mem) is called with two of its three
            \* arguments: Python raises TypeError
            Raised
      [] self.reset_mechanism_val = 2 ->
            Value1(RLeaky_base_state_function(self, input_, spk, mem))

\* Variant: the stored beta is used as it is, without the clamp.
RLeaky_base_state_function_hidden_unclamped(self, input_) ==
    TAdd(TAdd(TScale(self.beta, self.mem.v), input_), TScale(self.V, self.spk.v))

RLeaky_base_state_function_hidden(self, input_) ==
    TAdd(TAdd(TScale(clamp01(self.beta), self.mem.v), input_),
         TScale(self.V, self.spk.v))

RLeaky_build_state_function_hidden(self, input_) ==
    CASE self.reset_mechanism_val = 0 ->
            Value1(TSub(RLeaky_base_state_function_hidden(self, input_),
                        TScale(self.threshold, self.reset.v)))
      [] self.reset_mechanism_val = 1 ->
            Value1(TSub(RLeaky_base_state_function_hidden(self, input_),
                        TMul(self.reset.v, RLeaky_base_state_function_hidden(self, input_))))
      [] self.reset_mechanism_val = 2 ->
            Value1(RLeaky_base_state_function_hidden(self, input_))

\* _rleaky_forward_cases: TRUE when it raises the usage error
RLeaky_forward_cases(spk, mem) == ~isFalse(mem) \/ ~isFalse(spk)

\* What one forward call yields: the instance after the call, how the call
\* ended, the returned tuple, and the prior state its update read.
Outcome(self, status, ret, prior) ==
    [self |-> self, status |-> status, ret |-> ret, prior |-> prior]
Prior(spk, syn, mem) == [spk |-> spk, syn |-> syn, mem |-> mem]

\* Variant: a reset indicator left stored by an earlier call is used again.
RLeaky_forward_explicit_stale_reset(self, input_, spk, mem) ==
    LET self2 == IF self.reset.tag = "tensor" THEN self
                 ELSE [self EXCEPT !.reset = Tensor(mem_reset(self.threshold, mem.v), FALSE)]
        st == RLeaky_build_state_function(self2, input_, spk.v, mem.v)
        out == IF self.inhibition THEN fire_inhibition(self.threshold, st.mem)
                                  ELSE fire(self.threshold, st.mem)
    IN  IF ~st.ok
        THEN Outcome(self2, "TypeError", <<>>, Prior(spk, Absent, mem))
        ELSE Outcome(self2, "ok", <<Tensor(out, TRUE), Tensor(st.mem, TRUE)>>,
                     Prior(spk, Absent, mem))

\* the block under "if not self.init_hidden"
RLeaky_forward_explicit(self, input_, spk, mem) ==
    LET self2 == [self EXCEPT !.reset = Tensor(mem_reset(self.threshold, mem.v), FALSE)]
        st == RLeaky_build_state_function(self2, input_, spk.v, mem.v)
        out == IF self.inhibition THEN fire_inhibition(self.threshold, st.mem)
                                  ELSE fire(self.threshold, st.mem)
    IN  IF ~st.ok
        THEN Outcome(self2, "TypeError", <<>>, Prior(spk, Absent, mem))
        ELSE Outcome(self2, "ok", <<Tensor(out, TRUE), Tensor(st.mem, TRUE)>>,
                     Prior(spk, Absent, mem))

\* the block under "if self.init_hidden"
RLeaky_forward_hidden(self, input_, spk, mem) ==
    IF RLeaky_forward_cases(spk, mem)
    THEN Outcome(self, "UsageError", <<>>, Prior(self.spk, Absent, self.mem))
    ELSE
        LET self2 == [self EXCEPT
                        !.reset = Tensor(mem_reset(self.threshold, self.mem.v), FALSE)]
            st == RLeaky_build_state_function_hidden(self2, input_)
            self3 == [self2 EXCEPT !.mem = Tensor(st.mem, TRUE)]
            out == IF self.inhibition THEN fire_inhibition(self.threshold, st.mem)
                                      ELSE fire(self.threshold, st.mem)
            self4 == [self3 EXCEPT !.spk = Tensor(out, TRUE)]
        IN  Outcome(self4, "ok",
                    IF self.output THEN <<self4.spk, self4.mem>> ELSE <<self4.spk>>,
                    Prior(self.spk, Absent, self.mem))

\* Variant: the lazy initialization looks at the stored spike, not the
\* stored membrane.
RLeaky_forward_lazy_on_spk(self, input_, spk, mem) ==
    LET first == hasInitFlag(spk) \/ hasInitFlag(mem)
        noattr == ~first /\ isFalse(mem) /\ self.mem.tag = "absent"
        lazy == ~first /\ isFalse(mem) /\ hasInitFlag(self.spk)
        spk1 == IF first THEN SpikeTorchConv(spk, input_) ELSE spk
        mem1 == IF first THEN SpikeTorchConv(mem, input_) ELSE mem
        self1 == IF lazy
                 THEN [self EXCEPT !.spk = SpikeTorchConv(self.spk, input_),
                                   !.mem = SpikeTorchConv(self.mem, input_)]
                 ELSE self
    IN  IF noattr THEN Outcome(self, "AttributeError", <<>>, Prior(spk, Absent, mem))
        ELSE IF ~self.init_hidden THEN RLeaky_forward_explicit(self1, input_, spk1, mem1)
        ELSE RLeaky_forward_hidden(self1, input_, spk1, mem1)

RLeaky_forward(self, input_, spk, mem) ==
    LET first == hasInitFlag(spk) \/ hasInitFlag(mem)
        \* the elif reads self.mem: an instance without the attribute raises
        noattr == ~first /\ isFalse(mem) /\ self.mem.tag = "absent"
        lazy == ~first /\ isFalse(mem) /\ hasInitFlag(self.mem)
        spk1 == IF first THEN SpikeTorchConv(spk, input_) ELSE spk
        mem1 == IF first THEN SpikeTorchConv(mem, input_) ELSE mem
        self1 == IF lazy
                 THEN [self EXCEPT !.spk = SpikeTorchConv(self.spk, input_),
                                   !.mem = SpikeTorchConv(self.mem, input_)]
                 ELSE self
    IN  IF noattr THEN Outcome(self, "AttributeError", <<>>, Prior(spk, Absent, mem))
        ELSE IF ~self.init_hidden THEN RLeaky_forward_explicit(self1, input_, spk1, mem1)
        ELSE RLeaky_forward_hidden(self1, input_, spk1, mem1)

----------------------------------------------------------------------------
(* RSynaptic (rsynaptic.py)                                                 *)

RSynaptic_base_state_function(self, input_, spk, syn, mem) ==
    LET base_fn_syn == TAdd(TAdd(TScale(clamp01(self.alpha), syn), input_),
                            TScale(self.V, spk))
        base_fn_mem == TAdd(TScale(clamp01(self.beta), mem), base_fn_syn)
    IN  <<base_fn_syn, base_fn_mem>>

\* returns the scalar 0 in place of the synaptic term
RSynaptic_base_state_reset_zero(self, input_, spk, syn, mem) ==
    LET base_fn_syn == TAdd(TAdd(TScale(clamp01(self.alpha), syn), input_),
                            TScale(self.V, spk))
        base_fn_mem == TAdd(TScale(clamp01(self.beta), mem), base_fn_syn)
    IN  <<TZeros(input_), base_fn_mem>>

\* Variant: reset_mechanism "none" falls into the Subtract arithmetic.
RSynaptic_build_state_function_always_subtract(self, input_, spk, syn, mem) ==
    LET x == RSynaptic_base_state_function(self, input_, spk, syn, mem)
    IN  CASE self.reset_mechanism_val \in {0, 2} ->
                LET y == <<TZeros(input_), TScale(self.threshold, self.reset.v)>>
                IN  Value2(TSub(x[1], y[1]), TSub(x[2], y[2]))
          [] self.reset_mechanism_val = 1 ->
                LET y == RSynaptic_base_state_reset_zero(self, input_, spk, syn, mem)
                IN  Value2(TSub(x[1], TMul(self.reset.v, y[1])),
                           TSub(x[2], TMul(self.reset.v, y[2])))

RSynaptic_build_state_function(self, input_, spk, syn, mem) ==
    LET x == RSynaptic_base_state_function(self, input_, spk, syn, mem)
    IN  CASE self.reset_mechanism_val = 0 ->
                LET y == <<TZeros(input_), TScale(self.threshold, self.reset.v)>>
                IN  Value2(TSub(x[1], y[1]), TSub(x[2], y[2]))
          [] self.reset_mechanism_val = 1 ->
                LET y == RSynaptic_base_state_reset_zero(self, input_, spk, syn, mem)
                IN  Value2(TSub(x[1], TMul(self.reset.v, y[1])),
                           TSub(x[2], TMul(self.reset.v, y[2])))
          [] self.reset_mechanism_val = 2 -> Value2(x[1], x[2])

RSynaptic_base_state_function_hidden(self, input_) ==
    LET base_fn_syn == TAdd(TAdd(TScale(clamp01(self.alpha), self.syn.v), input_),
                            TScale(self.V, self.spk.v))
        base_fn_mem == TAdd(TScale(clamp01(self.beta), self.mem.v), base_fn_syn)
    IN  <<base_fn_syn, base_fn_mem>>

\* Variant: the Subtract branch takes reset*threshold off both components.
RSynaptic_build_state_function_hidden_both(self, input_) ==
    LET x == RSynaptic_base_state_function_hidden(self, input_)
    IN  CASE self.reset_mechanism_val = 0 ->
                LET y == <<TScale(self.threshold, self.reset.v),
                           TScale(self.threshold, self.reset.v)>>
                IN  Value2(TSub(x[1], y[1]), TSub(x[2], y[2]))
          [] self.reset_mechanism_val = 1 ->
                LET y == RSynaptic_base_state_function_hidden(self, input_)
                IN  Value2(TSub(x[1], TMul(self.reset.v, y[1])),
                           TSub(x[2], TMul(self.reset.v, y[2])))
          [] self.reset_mechanism_val = 2 -> Value2(x[1], x[2])

RSynaptic_build_state_function_hidden(self, input_) ==
    LET x == RSynaptic_base_state_function_hidden(self, input_)
    IN  CASE self.reset_mechanism_val = 0 ->
                LET y == <<TZeros(input_), TScale(self.threshold, self.reset.v)>>
                IN  Value2(TSub(x[1], y[1]), TSub(x[2], y[2]))
          [] self.reset_mechanism_val = 1 ->
                LET y == RSynaptic_base_state_function_hidden(self, input_)
                IN  Value2(TSub(x[1], TMul(self.reset.v, y[1])),
                           TSub(x[2], TMul(self.reset.v, y[2])))
          [] self.reset_mechanism_val = 2 -> Value2(x[1], x[2])

\* Variant: the usage check looks at spike and membrane only.
RSynaptic_forward_cases_no_syn(spk, mem, syn) == ~isFalse(mem) \/ ~isFalse(spk)

\* _rsynaptic_forward_cases: TRUE when it raises the usage error
RSynaptic_forward_cases(spk, mem, syn) == ~isFalse(mem) \/ ~isFalse(syn) \/ ~isFalse(spk)

\* Variant: the stored reset indicator is taken again from the membrane the
\* update produced.
RSynaptic_forward_explicit_reset_after(self, input_, spk, syn, mem) ==
    LET self2 == [self EXCEPT !.reset = Tensor(mem_reset(self.threshold, mem.v), FALSE)]
        st == RSynaptic_build_state_function(self2, input_, spk.v, syn.v, mem.v)
        self3 == [self2 EXCEPT
                    !.reset = Tensor(mem_reset(self.threshold, st.mem), FALSE)]
        out == IF self.inhibition THEN fire_inhibition(self.threshold, st.mem)
                                  ELSE fire(self.threshold, st.mem)
    IN  Outcome(self3, "ok",
                <<Tensor(out, TRUE), Tensor(st.syn, TRUE), Tensor(st.mem, TRUE)>>,
                Prior(spk, syn, mem))

\* the block under "if not self.init_hidden"
RSynaptic_forward_explicit(self, input_, spk, syn, mem) ==
    LET self2 == [self EXCEPT !.reset = Tensor(mem_reset(self.threshold, mem.v), FALSE)]
        st == RSynaptic_build_state_function(self2, input_, spk.v, syn.v, mem.v)
        out == IF self.inhibition THEN fire_inhibition(self.threshold, st.mem)
                                  ELSE fire(self.threshold, st.mem)
    IN  Outcome(self2, "ok",
                <<Tensor(out, TRUE), Tensor(st.syn, TRUE), Tensor(st.mem, TRUE)>>,
                Prior(spk, syn, mem))

\* the block under "if self.init_hidden"
RSynaptic_forward_hidden(self, input_, spk, syn, mem) ==
    IF RSynaptic_forward_cases(spk, mem, syn)
    THEN Outcome(self, "UsageError", <<>>, Prior(self.spk, self.syn, self.mem))
    ELSE
        LET self2 == [self EXCEPT
                        !.reset = Tensor(mem_reset(self.threshold, self.mem.v), FALSE)]
            st == RSynaptic_build_state_function_hidden(self2, input_)
            self3 == [self2 EXCEPT !.syn = Tensor(st.syn, TRUE),
                                   !.mem = Tensor(st.mem, TRUE)]
            out == IF self.inhibition THEN fire_inhibition(self.threshold, st.mem)
                                      ELSE fire(self.threshold, st.mem)
            self4 == [self3 EXCEPT !.spk = Tensor(out, TRUE)]
        IN  Outcome(self4, "ok",
                    IF self.output THEN <<self4.spk, self4.syn, self4.mem>>
                                   ELSE <<self4.spk>>,
                    Prior(self.spk, self.syn, self.mem))

RSynaptic_forward(self, input_, spk, syn, mem) ==
    LET first == hasInitFlag(spk) \/ hasInitFlag(syn) \/ hasInitFlag(mem)
        \* the elif reads self.mem: an instance without the attribute raises
        noattr == ~first /\ isFalse(mem) /\ self.mem.tag = "absent"
        lazy == ~first /\ isFalse(mem) /\ hasInitFlag(self.mem)
        spk1 == IF first THEN SpikeTorchConv(spk, input_) ELSE spk
        syn1 == IF first THEN SpikeTorchConv(syn, input_) ELSE syn
        mem1 == IF first THEN SpikeTorchConv(mem, input_) ELSE mem
        self1 == IF lazy
                 THEN [self EXCEPT !.spk = SpikeTorchConv(self.spk, input_),
                                   !.syn = SpikeTorchConv(self.syn, input_),
                                   !.mem = SpikeTorchConv(self.mem, input_)]
                 ELSE self
    IN  IF noattr THEN Outcome(self, "AttributeError", <<>>, Prior(spk, syn, mem))
        ELSE IF ~self.init_hidden
             THEN RSynaptic_forward_explicit(self1, input_, spk1, syn1, mem1)
        ELSE RSynaptic_forward_hidden(self1, input_, spk1, syn1, mem1)

----------------------------------------------------------------------------
(* Class-level operations over the shared registry cls.instances.           *)

\* detach_hidden, from position layer on; reading .mem of an instance that
\* never got the attribute raises and ends the loop
RECURSIVE RLeaky_detach_from(_, _)
RLeaky_detach_from(insts, layer) ==
    IF layer > Len(insts) THEN [instances |-> insts, status |-> "ok"]
    ELSE IF insts[layer].cls # "RLeaky" THEN RLeaky_detach_from(insts, layer + 1)
    ELSE IF insts[layer].mem.tag = "absent"
         THEN [instances |-> insts, status |-> "AttributeError"]
    ELSE RLeaky_detach_from([insts EXCEPT ![layer].mem.hist = FALSE], layer + 1)

\* Variant: the membrane is replaced by a new zero tensor instead of being
\* detached in place.
RLeaky_detach_hidden_zeroed(insts) ==
    [instances |->
        [layer \in DOMAIN insts |->
            IF insts[layer].cls = "RLeaky" /\ insts[layer].mem.tag = "tensor"
            THEN [insts[layer] EXCEPT !.mem = Tensor(TZeros(insts[layer].mem.v), FALSE)]
            ELSE insts[layer]],
     status |-> "ok"]

RLeaky_detach_hidden(insts) == RLeaky_detach_from(insts, 1)

\* Variant: every registered instance is reset, whatever its class.
RLeaky_reset_hidden_any_class(insts) ==
    [layer \in DOMAIN insts |-> [insts[layer] EXCEPT !.mem = SpikeTensor]]

RLeaky_reset_hidden(insts) ==
    [layer \in DOMAIN insts |->
        IF insts[layer].cls = "RLeaky"
        THEN [insts[layer] EXCEPT !.mem = SpikeTensor]
        ELSE insts[layer]]

RECURSIVE RSynaptic_detach_from(_, _)
RSynaptic_detach_from(insts, layer) ==
    IF layer > Len(insts) THEN [instances |-> insts, status |-> "ok"]
    ELSE IF insts[layer].cls # "RSynaptic" THEN RSynaptic_detach_from(insts, layer + 1)
    ELSE IF insts[layer].syn.tag = "absent"
         THEN [instances |-> insts, status |-> "AttributeError"]
    ELSE RSynaptic_detach_from(
            [insts EXCEPT ![layer].syn.hist = FALSE, ![layer].mem.hist = FALSE],
            layer + 1)

\* Variant: detaching drops the stored synaptic current and membrane, as
\* reset_hidden does.
RSynaptic_detach_hidden_dropping(insts) ==
    [instances |->
        [layer \in DOMAIN insts |->
            IF insts[layer].cls = "RSynaptic"
            THEN [insts[layer] EXCEPT !.syn = SpikeTensor, !.mem = SpikeTensor]
            ELSE insts[layer]],
     status |-> "ok"]

RSynaptic_detach_hidden(insts) == RSynaptic_detach_from(insts, 1)

RSynaptic_reset_hidden(insts) ==
    [layer \in DOMAIN insts |->
        IF insts[layer].cls = "RSynaptic"
        THEN [insts[layer] EXCEPT !.syn = SpikeTensor, !.mem = SpikeTensor]
        ELSE insts[layer]]

----------------------------------------------------------------------------
(* Construction.                                                            *)

\* the integer code of the reset policy
reset_mechanism_val(reset_mechanism) ==
    CASE reset_mechanism = "subtract" -> 0
      [] reset_mechanism = "zero" -> 1
      [] reset_mechanism = "none" -> 2

RLeaky_init(beta, V, threshold, init_hidden, inhibition, reset_mechanism, output) ==
    [cls |-> "RLeaky", beta |-> beta, alpha |-> Num(0), V |-> V,
     threshold |-> threshold, init_hidden |-> init_hidden,
     inhibition |-> inhibition, output |-> output,
     reset_mechanism_val |-> reset_mechanism_val(reset_mechanism),
     spk |-> IF init_hidden THEN init_rleaky.spk ELSE Absent,
     syn |-> Absent,
     mem |-> IF init_hidden THEN init_rleaky.mem ELSE Absent,
     reset |-> Absent]

RSynaptic_init(alpha, beta, V, threshold, init_hidden, inhibition, reset_mechanism, output) ==
    [cls |-> "RSynaptic", beta |-> beta, alpha |-> alpha, V |-> V,
     threshold |-> threshold, init_hidden |-> init_hidden,
     inhibition |-> inhibition, output |-> output,
     reset_mechanism_val |-> reset_mechanism_val(reset_mechanism),
     spk |-> IF init_hidden THEN init_rsynaptic.spk ELSE Absent,
     syn |-> IF init_hidden THEN init_rsynaptic.syn ELSE Absent,
     mem |-> IF init_hidden THEN init_rsynaptic.mem ELSE Absent,
     reset |-> Absent]

----------------------------------------------------------------------------
(* The values the calls are tried on.                                       *)

\* (alpha, beta, V): decay rates inside and outside [0, 1], V of either sign
Params == {<<Dy(1, 1), Dy(1, 1), Num(1)>>, <<Num(-1), Num(2), Dy(-1, 1)>>}
Thresholds == {Num(1)}
Policies == {"subtract", "zero", "none"}

Inputs == {<<Num(2), Num(2)>>, <<Num(0), Num(3)>>}

SpkArgs == {DefaultFalse, SpikeTensor, Tensor(<<Num(1), Num(0)>>, FALSE)}
SynArgs == {DefaultFalse, SpikeTensor, Tensor(<<Num(1), Dy(-1, 1)>>, FALSE)}
MemArgs == {DefaultFalse, SpikeTensor,
            Tensor(<<Num(0), Num(2)>>, FALSE), Tensor(<<Dy(3, 1), Num(1)>>, FALSE)}

RLeakyConfigs ==
    {RLeaky_init(p[2], p[3], t, h, inh, r, o) :
        p \in Params, t \in Thresholds, h \in BOOLEAN, inh \in BOOLEAN,
        r \in Policies, o \in BOOLEAN}

RSynapticConfigs ==
    {RSynaptic_init(p[1], p[2], p[3], t, h, inh, r, o) :
        p \in Params, t \in Thresholds, h \in BOOLEAN, inh \in BOOLEAN,
        r \in Policies, o \in BOOLEAN}

\* What is remembered per instance about its last hidden-state step: the
\* spike it emitted, and whether reset_hidden / detach_hidden ran since.
NoTrack == [spiked |-> <<>>, cleared |-> FALSE, detached |-> FALSE]

NoCall == [op |-> "none", cls |-> "none", i |-> 0, input |-> <<>>,
           status |-> "none", ret |-> <<>>,
           prior |-> Prior(Absent, Absent, Absent), nondefault |-> FALSE,
           after_reset |-> FALSE, args |-> <<>>, seen |-> NoTrack]

ClassCall(op, cls, status) == [NoCall EXCEPT !.op = op, !.cls = cls, !.status = status]

\* args: the state handed to an explicit-state call; seen: what was
\* remembered about the instance when the call was made
ForwardCall(i, cls, input_, o, nondefault, args) ==
    [op |-> "forward", cls |-> cls, i |-> i, input |-> input_, status |-> o.status,
     ret |-> o.ret, prior |-> o.prior, nondefault |-> nondefault,
     after_reset |-> last.op = "reset_hidden" /\ last.cls = cls,
     args |-> IF o.self.init_hidden THEN <<>> ELSE args,
     seen |-> track[i]]

\* track after a forward call on instance i that ended as o
TrackForward(i, o) ==
    IF o.self.init_hidden /\ o.status = "ok"
    THEN [track EXCEPT ![i] = [spiked |-> o.ret[1].v, cleared |-> FALSE, detached |-> FALSE]]
    ELSE track

\* track after reset_hidden of class cls
TrackReset(cls) ==
    [i \in DOMAIN track |->
        IF instances[i].cls = cls /\ instances[i].init_hidden
        THEN [track[i] EXCEPT !.cleared = TRUE] ELSE track[i]]

\* track after detach_hidden of class cls
TrackDetach(cls) ==
    [i \in DOMAIN track |->
        IF instances[i].cls = cls /\ instances[i].init_hidden
        THEN [track[i] EXCEPT !.detached = TRUE] ELSE track[i]]

\* forward in the hidden-state form (input only) and in the explicit-state
\* form (input and state), for either class
HiddenCall(self, input_) ==
    IF self.cls = "RLeaky"
    THEN RLeaky_forward(self, input_, DefaultFalse, DefaultFalse)
    ELSE RSynaptic_forward(self, input_, DefaultFalse, DefaultFalse, DefaultFalse)

ExplicitCall(self, input_, args) ==
    IF self.cls = "RLeaky"
    THEN RLeaky_forward(self, input_, args[1], args[2])
    ELSE RSynaptic_forward(self, input_, args[1], args[2], args[3])

\* The caller of the explicit-state form: the state it threads from call to
\* call, what each explicit call gave (steps), and what the hidden-state
\* instance stepped with the same inputs held after each step (hidden).
NoCaller == [start |-> "marker", spk |-> SpikeTensor, syn |-> SpikeTensor,
             mem |-> SpikeTensor, steps |-> <<>>, hidden |-> <<>>]

\* the caller of the documented scenario starts from zero tensors
ZeroCaller(input_) ==
    [NoCaller EXCEPT !.start = "zeros",
                     !.spk = Tensor(TZeros(input_), FALSE),
                     !.syn = Tensor(TZeros(input_), FALSE),
                     !.mem = Tensor(TZeros(input_), FALSE)]

\* The explicit-state form takes each state argument as a real tensor or the
\* marker; the hidden-state form may be handed anything.
ArgsAllowed(self, args) == self.init_hidden \/ \A a \in args : ~isFalse(a)

Init ==
    /\ instances \in {<<c>> : c \in RLeakyConfigs \cup RSynapticConfigs}
    /\ last = NoCall
    /\ pre = instances
    /\ calls = 0
    /\ track = [i \in DOMAIN instances |-> NoTrack]
    /\ caller = NoCaller

RLeakyForward ==
    /\ calls < MaxCalls
    /\ \E i \in DOMAIN instances, input_ \in Inputs, spk \in SpkArgs, mem \in MemArgs :
        /\ instances[i].cls = "RLeaky"
        /\ ArgsAllowed(instances[i], {spk, mem})
        /\ \E o \in {RLeaky_forward(instances[i], input_, spk, mem)} :
               /\ instances' = [instances EXCEPT ![i] = o.self]
               /\ last' = ForwardCall(i, "RLeaky", input_, o,
                                      ~isFalse(spk) \/ ~isFalse(mem), <<spk, mem>>)
               /\ track' = TrackForward(i, o)
    /\ pre' = instances
    /\ calls' = calls + 1
    /\ UNCHANGED caller

RSynapticForward ==
    /\ calls < MaxCalls
    /\ \E i \in DOMAIN instances, input_ \in Inputs,
          spk \in SpkArgs, syn \in SynArgs, mem \in MemArgs :
        /\ instances[i].cls = "RSynaptic"
        /\ ArgsAllowed(instances[i], {spk, syn, mem})
        /\ \E o \in {RSynaptic_forward(instances[i], input_, spk, syn, mem)} :
               /\ instances' = [instances EXCEPT ![i] = o.self]
               /\ last' = ForwardCall(i, "RSynaptic", input_, o,
                                      ~isFalse(spk) \/ ~isFalse(syn) \/ ~isFalse(mem),
                                      <<spk, syn, mem>>)
               /\ track' = TrackForward(i, o)
    /\ pre' = instances
    /\ calls' = calls + 1
    /\ UNCHANGED caller

RLeakyDetachAll ==
    LET r == RLeaky_detach_hidden(instances)
    IN  /\ instances' = r.instances
        /\ last' = ClassCall("detach_hidden", "RLeaky", r.status)
        /\ track' = TrackDetach("RLeaky")
        /\ pre' = instances /\ UNCHANGED <<calls, caller>>

RLeakyResetAll ==
    /\ instances' = RLeaky_reset_hidden(instances)
    /\ last' = ClassCall("reset_hidden", "RLeaky", "ok")
    /\ track' = TrackReset("RLeaky")
    /\ pre' = instances /\ UNCHANGED <<calls, caller>>

RSynapticDetachAll ==
    LET r == RSynaptic_detach_hidden(instances)
    IN  /\ instances' = r.instances
        /\ last' = ClassCall("detach_hidden", "RSynaptic", r.status)
        /\ track' = TrackDetach("RSynaptic")
        /\ pre' = instances /\ UNCHANGED <<calls, caller>>

RSynapticResetAll ==
    /\ instances' = RSynaptic_reset_hidden(instances)
    /\ last' = ClassCall("reset_hidden", "RSynaptic", "ok")
    /\ track' = TrackReset("RSynaptic")
    /\ pre' = instances /\ UNCHANGED <<calls, caller>>

Next ==
    \/ RLeakyForward
    \/ RSynapticForward
    \/ RLeakyDetachAll
    \/ RLeakyResetAll
    \/ RSynapticDetachAll
    \/ RSynapticResetAll

Spec == Init /\ [][Next]_vars

\* Registries holding hidden-state instances of both classes.
RegistryPolicies == {"subtract", "zero"}

RegistryConfigs ==
    {RLeaky_init(Dy(1, 1), Num(1), Num(1), TRUE, FALSE, r, TRUE) : r \in RegistryPolicies}
    \cup {RSynaptic_init(Dy(1, 1), Dy(1, 1), Num(1), Num(1), TRUE, FALSE, r, TRUE) :
              r \in RegistryPolicies}

InitRegistry ==
    /\ instances \in {<<a, b>> : a \in RegistryConfigs, b \in RegistryConfigs}
    /\ last = NoCall
    /\ pre = instances
    /\ calls = 0
    /\ track = [i \in DOMAIN instances |-> NoTrack]
    /\ caller = NoCaller

\* forward in the hidden-state form: the input only
RLeakyStep ==
    /\ calls < MaxCalls
    /\ \E i \in DOMAIN instances, input_ \in Inputs :
        /\ instances[i].cls = "RLeaky"
        /\ \E o \in {RLeaky_forward(instances[i], input_, DefaultFalse, DefaultFalse)} :
               /\ instances' = [instances EXCEPT ![i] = o.self]
               /\ last' = ForwardCall(i, "RLeaky", input_, o, FALSE,
                                      <<DefaultFalse, DefaultFalse>>)
               /\ track' = TrackForward(i, o)
    /\ pre' = instances
    /\ calls' = calls + 1
    /\ UNCHANGED caller

RSynapticStep ==
    /\ calls < MaxCalls
    /\ \E i \in DOMAIN instances, input_ \in Inputs :
        /\ instances[i].cls = "RSynaptic"
        /\ \E o \in {RSynaptic_forward(instances[i], input_,
                                         DefaultFalse, DefaultFalse, DefaultFalse)} :
               /\ instances' = [instances EXCEPT ![i] = o.self]
               /\ last' = ForwardCall(i, "RSynaptic", input_, o, FALSE,
                                      <<DefaultFalse, DefaultFalse, DefaultFalse>>)
               /\ track' = TrackForward(i, o)
    /\ pre' = instances
    /\ calls' = calls + 1
    /\ UNCHANGED caller

NextRegistry ==
    \/ RLeakyStep
    \/ RSynapticStep
    \/ RLeakyDetachAll
    \/ RLeakyResetAll
    \/ RSynapticDetachAll
    \/ RSynapticResetAll

SpecRegistry == InitRegistry /\ [][NextRegistry]_vars

\* A hidden-state instance and an explicit-state instance of one
\* configuration, stepped with the same inputs; the explicit one is handed
\* the state its previous call returned.
MaxSteps == 3

ThreadInputs == {<<Num(1), Num(1)>>, <<Num(0), Num(3)>>}

ThreadPairs ==
    {<<RLeaky_init(p[2], p[3], t, TRUE, inh, r, TRUE),
       RLeaky_init(p[2], p[3], t, FALSE, inh, r, TRUE)>> :
        p \in Params, t \in Thresholds, inh \in BOOLEAN, r \in Policies}
    \cup
    {<<RSynaptic_init(p[1], p[2], p[3], t, TRUE, inh, r, TRUE),
       RSynaptic_init(p[1], p[2], p[3], t, FALSE, inh, r, TRUE)>> :
        p \in Params, t \in Thresholds, inh \in BOOLEAN, r \in Policies}

InitThread ==
    /\ instances \in ThreadPairs
    /\ last = NoCall
    /\ pre = instances
    /\ calls = 0
    /\ track = [i \in DOMAIN instances |-> NoTrack]
    /\ caller \in {NoCaller} \cup {ZeroCaller(x) : x \in ThreadInputs}

\* the explicit-state call so far returned normally
ThreadAlive ==
    IF caller.steps = <<>> THEN TRUE
    ELSE caller.steps[Len(caller.steps)].status = "ok"

\* one step of the hidden-state instance
ThreadHidden ==
    /\ Len(caller.hidden) = Len(caller.steps)
    /\ Len(caller.hidden) < MaxSteps
    /\ ThreadAlive
    /\ \E input_ \in ThreadInputs :
        \E o \in {HiddenCall(instances[1], input_)} :
            /\ instances' = [instances EXCEPT ![1] = o.self]
            /\ last' = ForwardCall(1, instances[1].cls, input_, o, FALSE, <<>>)
            /\ track' = TrackForward(1, o)
            /\ caller' = [caller EXCEPT !.hidden =
                             Append(@, [input |-> input_, spk |-> o.self.spk.v,
                                        syn |-> o.self.syn.v, mem |-> o.self.mem.v])]
    /\ pre' = instances
    /\ UNCHANGED calls

\* the state the caller hands to the next explicit-state call
ThreadArgs ==
    IF instances[2].cls = "RLeaky" THEN <<caller.spk, caller.mem>>
    ELSE <<caller.spk, caller.syn, caller.mem>>

\* what the caller keeps of an explicit-state call that ended as o
ThreadStep(input_, o) ==
    [input |-> input_, status |-> o.status, reset |-> o.self.reset.v,
     spk |-> IF o.status = "ok" THEN o.ret[1].v ELSE <<>>,
     syn |-> IF o.status = "ok" /\ o.self.cls = "RSynaptic" THEN o.ret[2].v ELSE <<>>,
     mem |-> IF o.status = "ok" THEN o.ret[Len(o.ret)].v ELSE <<>>]

\* the same step on the explicit-state instance, handed the threaded state
ThreadExplicit ==
    /\ Len(caller.hidden) = Len(caller.steps) + 1
    /\ \E input_ \in {caller.hidden[Len(caller.hidden)].input} :
        \E o \in {ExplicitCall(instances[2], input_, ThreadArgs)} :
            /\ instances' = [instances EXCEPT ![2] = o.self]
            /\ last' = ForwardCall(2, instances[2].cls, input_, o, TRUE, ThreadArgs)
            /\ track' = TrackForward(2, o)
            /\ caller' = [caller EXCEPT
                            !.spk = IF o.status = "ok" THEN o.ret[1] ELSE @,
                            !.syn = IF o.status = "ok" /\ o.self.cls = "RSynaptic"
                                    THEN o.ret[2] ELSE @,
                            !.mem = IF o.status = "ok" THEN o.ret[Len(o.ret)] ELSE @,
                            !.steps = Append(@, ThreadStep(input_, o))]
    /\ pre' = instances
    /\ UNCHANGED calls

NextThread ==
    \/ ThreadHidden
    \/ ThreadExplicit

SpecThread == InitThread /\ [][NextThread]_vars

----------------------------------------------------------------------------
(* Reading the last call.                                                   *)

Self == instances[last.i]
Before == pre[last.i]

\* a forward call in the form the instance was constructed for
StepCall == last.op = "forward" /\ (Self.init_hidden => ~last.nondefault)
Returned == StepCall /\ last.status = "ok"

NewSpk == IF Self.init_hidden THEN Self.spk.v ELSE last.ret[1].v
NewSyn == IF Self.init_hidden THEN Self.syn.v ELSE last.ret[2].v
NewMem == IF Self.init_hidden THEN Self.mem.v ELSE last.ret[Len(last.ret)].v
ResetUsed == Self.reset.v
Neurons == DOMAIN last.input

\* a decay rate brought into [0, 1]
InUnit(a) == CASE a[1] < 0 -> Num(0)
               [] a[1] > Pow2(a[2]) -> Num(1)
               [] OTHER -> a

\* the recurrences as the documentation writes them, per neuron
LeakyBase(j) ==
    DAdd(DAdd(DMul(InUnit(Self.beta), last.prior.mem.v[j]), last.input[j]),
         DMul(Self.V, last.prior.spk.v[j]))
SynBase(j) ==
    DAdd(DAdd(DMul(InUnit(Self.alpha), last.prior.syn.v[j]), last.input[j]),
         DMul(Self.V, last.prior.spk.v[j]))
MemBase(j) ==
    IF Self.cls = "RLeaky" THEN LeakyBase(j)
    ELSE DAdd(DMul(InUnit(Self.beta), last.prior.mem.v[j]), SynBase(j))

\* stored state without the gradient-history links
Val(slot) == <<slot.tag, slot.v>>
Stored(self) == [spk |-> Val(self.spk), syn |-> Val(self.syn),
                 mem |-> Val(self.mem), reset |-> Val(self.reset)]

----------------------------------------------------------------------------
(* C1: RLeaky with the Zero policy: every step call, in either form,        *)
(* returns normally with newMembrane = base - reset*base.                   *)
C1_RLeakyZeroStep ==
    (StepCall /\ Self.cls = "RLeaky" /\ Self.reset_mechanism_val = 1) =>
        /\ last.status = "ok"
        /\ \A j \in Neurons :
             NewMem[j] = DSub(LeakyBase(j), DMul(ResetUsed[j], LeakyBase(j)))

(* C2: RSynaptic with the Zero policy: in either form reset=1 gives         *)
(* newSynCurrent = 0 and newMembrane = 0, reset=0 gives synBase and memBase. *)
C2_RSynapticZeroStep ==
    (StepCall /\ Self.cls = "RSynaptic" /\ Self.reset_mechanism_val = 1) =>
        /\ last.status = "ok"
        /\ \A j \in Neurons :
             /\ ResetUsed[j] = Num(1) => NewSyn[j] = Num(0) /\ NewMem[j] = Num(0)
             /\ ResetUsed[j] = Num(0) => NewSyn[j] = SynBase(j) /\ NewMem[j] = MemBase(j)

(* C3: with the Subtract policy every step of either class, in either form, *)
(* gives newMembrane = base - threshold where reset=1 and base where        *)
(* reset=0.                                                                 *)
C3_SubtractStep ==
    (StepCall /\ Self.reset_mechanism_val = 0) =>
        /\ last.status = "ok"
        /\ \A j \in Neurons :
             /\ ResetUsed[j] \in {Num(0), Num(1)}
             /\ ResetUsed[j] = Num(1) => NewMem[j] = DSub(MemBase(j), Self.threshold)
             /\ ResetUsed[j] = Num(0) => NewMem[j] = MemBase(j)

C3_Witness ==
    /\ Returned /\ Self.reset_mechanism_val = 0
    /\ \E j, k \in Neurons : ResetUsed[j] = Num(1) /\ ResetUsed[k] = Num(0)

(* C4: RSynaptic with the Subtract policy leaves the synaptic current at    *)
(* synBase on every step, whatever the reset indicator.                     *)
C4_SubtractKeepsSyn ==
    (StepCall /\ Self.cls = "RSynaptic" /\ Self.reset_mechanism_val = 0) =>
        /\ last.status = "ok"
        /\ \A j \in Neurons : NewSyn[j] = SynBase(j)

C4_Witness ==
    /\ Returned /\ Self.cls = "RSynaptic" /\ Self.reset_mechanism_val = 0
    /\ Self.init_hidden
    /\ \E j \in Neurons : ResetUsed[j] = Num(1) /\ SynBase(j) # Num(0)

(* C5: with reset_mechanism "none" every step gives newMembrane = base and, *)
(* for RSynaptic, newSynCurrent = synBase, whatever the reset indicator.    *)
C5_NoResetStep ==
    (StepCall /\ Self.reset_mechanism_val = 2) =>
        /\ last.status = "ok"
        /\ \A j \in Neurons :
             /\ NewMem[j] = MemBase(j)
             /\ Self.cls = "RSynaptic" => NewSyn[j] = SynBase(j)

C5_Witness ==
    /\ Returned /\ Self.reset_mechanism_val = 2 /\ Self.cls = "RSynaptic"
    /\ ~Self.init_hidden
    /\ \E j \in Neurons : ResetUsed[j] = Num(1)

(* C6: the reset indicator of a step is computed from the membrane as it    *)
(* was before the step's update, never from the membrane it produces.       *)
C6_ResetFromPriorMembrane ==
    StepCall =>
        \A j \in Neurons :
            ResetUsed[j] = mem_reset(Self.threshold, last.prior.mem.v)[j]

\* a step on which the prior and the produced membrane disagree
C6_Witness ==
    /\ Returned
    /\ \E j \in Neurons :
         DGt(NewMem[j], Self.threshold) # DGt(last.prior.mem.v[j], Self.threshold)

(* C7: a forward call on a hidden-state instance with any non-default state *)
(* argument ends in the usage error and returns nothing.                    *)
C7_MixedCallIsUsageError ==
    (last.op = "forward" /\ Self.init_hidden /\ last.nondefault) =>
        last.status = "UsageError" /\ last.ret = <<>>

C7_Witness ==
    /\ last.op = "forward" /\ Self.init_hidden /\ last.nondefault
    /\ Self.cls = "RSynaptic" /\ last.status = "UsageError"

(* C8: a forward call that fails with the usage error leaves the stored     *)
(* state of the instance exactly as it was before the call.                 *)
C8_UsageErrorMutatesNothing ==
    (last.op = "forward" /\ last.status = "UsageError") =>
        Stored(Self) = Stored(Before)

\* a hidden-state instance as construction leaves it
Fresh(self) ==
    [self EXCEPT !.spk = SpikeTensor, !.mem = SpikeTensor, !.reset = Absent,
                 !.syn = IF self.cls = "RSynaptic" THEN SpikeTensor ELSE Absent]

(* C9: on a hidden-state instance, resetAll followed by forward(x) gives    *)
(* the spike and stored state of the first forward(x) on a fresh instance.  *)
C9_ResetThenForwardIsFirstCall ==
    (Returned /\ Self.init_hidden /\ last.after_reset) =>
        LET first == HiddenCall(Fresh(Self), last.input)
        IN  /\ Stored(Self) = Stored(first.self)
            /\ [k \in DOMAIN last.ret |-> Val(last.ret[k])]
                 = [k \in DOMAIN first.ret |-> Val(first.ret[k])]

(* C10: detachAll leaves every stored value unchanged (only the gradient    *)
(* history links of membrane and synaptic current change), so a forward     *)
(* call after it computes what it would have computed without it.           *)
C10_DetachKeepsValues ==
    last.op = "detach_hidden" =>
        \A i \in DOMAIN instances :
            /\ Stored(instances[i]) = Stored(pre[i])
            /\ instances[i].spk = pre[i].spk
            /\ instances[i].init_hidden =>
                 \A x \in Inputs :
                    LET a == HiddenCall(instances[i], x)
                        b == HiddenCall(pre[i], x)
                    IN  /\ a.status = b.status
                        /\ Stored(a.self) = Stored(b.self)
                        /\ [k \in DOMAIN a.ret |-> Val(a.ret[k])]
                             = [k \in DOMAIN b.ret |-> Val(b.ret[k])]

C10_Witness ==
    /\ last.op = "detach_hidden" /\ last.status = "ok"
    /\ \E i \in DOMAIN instances :
         /\ pre[i].mem.tag = "tensor" /\ pre[i].mem.hist /\ ~instances[i].mem.hist
         /\ \E j \in DOMAIN pre[i].mem.v : pre[i].mem.v[j] # Num(0)

(* C12: beta, alpha, V and threshold are left as stored by every forward,   *)
(* detachAll and resetAll call, also when beta or alpha lies outside        *)
(* [0, 1]; each update works with the clamped value of the stored rate.     *)
C12_ParametersUntouched ==
    /\ \A i \in DOMAIN instances :
         /\ instances[i].beta = pre[i].beta
         /\ instances[i].alpha = pre[i].alpha
         /\ instances[i].V = pre[i].V
         /\ instances[i].threshold = pre[i].threshold
    /\ Returned =>
         \A j \in Neurons :
            /\ NewMem[j] \in {MemBase(j), DSub(MemBase(j), Self.threshold), Num(0)}
            /\ Self.cls = "RSynaptic" => NewSyn[j] \in {SynBase(j), Num(0)}

\* a step with a stored rate outside [0, 1] acting on a non-zero state
C12_Witness ==
    /\ Returned /\ Self.init_hidden /\ Self.beta = Num(2)
    /\ Self.beta # InUnit(Self.beta)
    /\ \E j \in Neurons : last.prior.mem.v[j] # Num(0)

(* C13: on every step call (a hidden-state instance in any reachable state, *)
(* or an explicit-state call handed tensors or markers) the slots the reset *)
(* computation and the update arithmetic read are real tensors: every       *)
(* marker has been replaced by zeros first.                                 *)
C13_NoMarkerReachesArithmetic ==
    StepCall =>
        /\ last.prior.spk.tag = "tensor"
        /\ last.prior.mem.tag = "tensor"
        /\ Self.cls = "RSynaptic" => last.prior.syn.tag = "tensor"
        /\ ~Self.init_hidden =>
             LET a == last.args
             IN  /\ hasInitFlag(a[1]) => last.prior.spk.v = TZeros(last.input)
                 /\ hasInitFlag(a[Len(a)]) => last.prior.mem.v = TZeros(last.input)
                 /\ (Self.cls = "RSynaptic" /\ hasInitFlag(a[2])) =>
                       last.prior.syn.v = TZeros(last.input)
        /\ (Self.init_hidden /\ hasInitFlag(Before.mem)) =>
              last.prior.mem.v = TZeros(last.input)

\* a hidden-state step after resetAll: the stored membrane was the marker
\* while the stored spike was a real tensor
C13_Witness ==
    /\ StepCall /\ Self.init_hidden /\ last.after_reset
    /\ hasInitFlag(Before.mem) /\ Before.spk.tag = "tensor"
    /\ last.prior.mem.v = TZeros(last.input)

\* an explicit-state instance of the same configuration on which nothing
\* has been called
Unused(self) ==
    [self EXCEPT !.spk = Absent, !.syn = Absent, !.mem = Absent, !.reset = Absent]

(* C15: an explicit-state call returns what the same call (same input and   *)
(* state arguments) returns on an unused instance of the same               *)
(* configuration, whatever was called on the instance before.               *)
C15_ExplicitStepHistoryIndependent ==
    (last.op = "forward" /\ ~Self.init_hidden) =>
        LET o == ExplicitCall(Unused(Self), last.input, last.args)
        IN  /\ last.status = o.status
            /\ last.ret = o.ret

\* a call on an instance whose earlier call left another reset indicator
C15_Witness ==
    /\ last.op = "forward" /\ ~Self.init_hidden /\ last.status = "ok"
    /\ Self.reset_mechanism_val = 0
    /\ Before.reset.tag = "tensor" /\ Before.reset.v # Self.reset.v

\* a hidden-state Subtract step on an instance whose previous step spiked
AfterSpike(j) ==
    /\ Returned /\ Self.init_hidden /\ Self.reset_mechanism_val = 0
    /\ last.seen.spiked # <<>>
    /\ last.seen.spiked[j] = Num(1)

(* C14 as stated: in hidden-state mode with the Subtract policy, a forward  *)
(* call following a forward call on which the neuron spiked, with any       *)
(* number of detachAll or resetAll calls in between, has reset indicator 1  *)
(* and the threshold subtracted from the membrane.                          *)
C14_ResetAfterSpike ==
    \A j \in DOMAIN last.input :
        AfterSpike(j) =>
            /\ ResetUsed[j] = Num(1)
            /\ NewMem[j] = DSub(MemBase(j), Self.threshold)

(* C14 amended: the same, with any number of detachAll calls but no         *)
(* resetAll call in between.                                                *)
C14_ResetAfterSpikeUnlessCleared ==
    \A j \in DOMAIN last.input :
        (AfterSpike(j) /\ ~last.seen.cleared) =>
            /\ ResetUsed[j] = Num(1)
            /\ NewMem[j] = DSub(MemBase(j), Self.threshold)

\* the step after a spiking step, with a detachAll in between
C14_Witness ==
    \E j \in DOMAIN last.input :
        /\ AfterSpike(j) /\ ~last.seen.cleared /\ last.seen.detached
        /\ Self.cls = "RSynaptic"
        /\ ResetUsed[j] = Num(1)

(* C17: detachAll and resetAll of one class leave every registered instance *)
(* of the other class exactly as it was.                                    *)
C17_ClassOpsConfined ==
    last.op \in {"detach_hidden", "reset_hidden"} =>
        \A i \in DOMAIN instances :
            instances[i].cls # last.cls => instances[i] = pre[i]

\* a class-level call that changed an instance of its own class while an
\* instance of the other class held real, history-linked state
C17_Witness ==
    /\ last.op \in {"detach_hidden", "reset_hidden"}
    /\ \E i, k \in DOMAIN instances :
         /\ instances[i].cls = last.cls /\ instances[i] # pre[i]
         /\ instances[k].cls # last.cls
         /\ instances[k].mem.tag = "tensor" /\ instances[k].mem.hist

\* the documented scenario: RLeaky, beta = 0.5, V = 1, threshold = 1,
\* Subtract, three explicit-state steps with input 1 from zero state
Scenario ==
    /\ instances[2].cls = "RLeaky" /\ ~instances[2].init_hidden
    /\ instances[2].beta = Dy(1, 1) /\ instances[2].V = Num(1)
    /\ instances[2].threshold = Num(1) /\ instances[2].reset_mechanism_val = 0
    /\ ~instances[2].inhibition
    /\ caller.start = "zeros"
    /\ Len(caller.steps) = 3
    /\ \A k \in 1..3 : caller.steps[k].input = <<Num(1), Num(1)>>

Trace(field) == [k \in 1..3 |-> caller.steps[k][field][1]]

(* C11 as stated: the scenario gives membranes 1.0, 1.5, 1.75, spikes       *)
(* 1, 1, 1 and reset indicators 0, 1, 1.                                    *)
C11_ScenarioAsStated ==
    Scenario =>
        /\ Trace("mem") = <<Num(1), Dy(3, 1), Dy(7, 2)>>
        /\ Trace("spk") = <<Num(1), Num(1), Num(1)>>
        /\ Trace("reset") = <<Num(0), Num(1), Num(1)>>

(* C11 amended: the scenario gives membranes 1.0, 1.5, 1.75, spikes         *)
(* 0, 1, 1 and reset indicators 0, 0, 1: a membrane equal to the threshold  *)
(* neither spikes nor resets.                                               *)
C11_Scenario ==
    Scenario =>
        /\ \A k \in 1..3 : caller.steps[k].status = "ok"
        /\ Trace("mem") = <<Num(1), Dy(3, 1), Dy(7, 2)>>
        /\ Trace("spk") = <<Num(0), Num(1), Num(1)>>
        /\ Trace("reset") = <<Num(0), Num(0), Num(1)>>

C11_Witness == Scenario /\ caller.steps[3].mem = <<Dy(7, 2), Dy(7, 2)>>

(* C16: stepped with the same inputs, the explicit-state instance threading *)
(* its returned state from markers and the hidden-state instance give the   *)
(* same spike, membrane and synaptic current at every step, for every       *)
(* policy and configuration.                                                *)
C16_FormsAgree ==
    (caller.start = "marker" /\ Len(caller.steps) = Len(caller.hidden)) =>
        \A k \in DOMAIN caller.steps :
            /\ caller.steps[k].status = "ok"
            /\ caller.steps[k].spk = caller.hidden[k].spk
            /\ caller.steps[k].mem = caller.hidden[k].mem
            /\ instances[2].cls = "RSynaptic" =>
                  caller.steps[k].syn = caller.hidden[k].syn

\* the same, for the policies other than zero
C16_FormsAgreeOffZero ==
    instances[2].reset_mechanism_val # 1 => C16_FormsAgree

====
